---- MODULE Spec2Model ----
(***************************************************************************)
(* A model of the maze game: the grid maze (entities/maze.py), the player  *)
(* and its collision test (entities/player.py), the movement strategies    *)
(* (design_patterns/strategy_movement.py), the step of Game.update that    *)
(* moves the player (core/game.py) and the raycaster                       *)
(* (graphics/raycaster.py).                                                *)
(*                                                                         *)
(* Numbers.  The program computes in Python floats.  The model keeps       *)
(*   - positions and distances in micro-cells (Cell units per grid cell);  *)
(*     every product of the model is then an integer, so the position      *)
(*     arithmetic is exact;                                                *)
(*   - angles in quarter degrees (Deg units per degree), as a miniature    *)
(*     binary floating-point format of MantBits significant bits: the      *)
(*     result of every angle operation is rounded to the nearest           *)
(*     representable value, ties to even, as IEEE-754 does with 53 bits.   *)
(*     Whole degrees up to 511 are representable, so they compute exactly; *)
(*   - sines and cosines in thousandths (Bhaskara's rational               *)
(*     approximation, exact at 0, 30, 90, 150 and 180 degrees).            *)
(***************************************************************************)
EXTENDS Integers, Sequences, FiniteSets, TLC

VARIABLES
    game,       \* the Game object: state, selected_option, current_difficulty, strategy
    maze,       \* the Maze object, or None
    player,     \* the Player object [x, y, angle], or None
    settings,   \* the GameSettings singleton: FOV, NUM_RAYS, MAX_DEPTH, PLAYER_*
    raycaster,  \* the Raycaster object [half_fov, delta_angle], or None
    last,       \* the last call made: its name, its arguments and what it returned
    steps,      \* number of calls made so far
    frame,      \* Game.run: the position in the frame loop and the calls of this frame
    cast,       \* a cast_rays() call in progress while other threads run: its locals
    singleton,  \* the GameSettings class: _instance, _lock, and the threads calling it
    refs        \* which objects the maze, the player and the raycaster's fields are

vars == <<game, maze, player, settings, raycaster, last, steps, frame, cast, singleton, refs>>

\* What the calls on a maze, a player and a raycaster leave alone.
elsewhere == <<frame, cast, singleton>>
unbound == <<frame, cast, singleton, refs>>

None == [none |-> TRUE]

\* ------------------------------------------------------------------ numbers

Cell == 1000 * 1000         \* micro-cells per grid cell
Milli == Cell \div 1000     \* micro-cells per thousandth of a cell; also the trig scale
Deg == 2 * 2                \* angle units per degree
MantBits == 3 * 3           \* significant bits of the miniature float format

Abs(v) == IF v < 0 THEN -v ELSE v
Sign(v) == IF v < 0 THEN -1 ELSE 1

\* int(v) of a Python float: truncation toward zero (v in micro-cells, result in cells).
PyInt(v) == IF v >= 0 THEN v \div Cell ELSE -((-v) \div Cell)

\* The spacing of the representable values around magnitude a >= 0.
RECURSIVE Ulp(_)
Ulp(a) == IF a < 2 ^ MantBits THEN 1 ELSE 2 * Ulp(a \div 2)

\* v rounded to the nearest representable value, ties to even.
FRound(v) ==
    LET a == Abs(v)
        u == Ulp(a)
        q == a \div u
        r == a % u
        up == (2 * r > u) \/ (2 * r = u /\ q % 2 = 1)
    IN  Sign(v) * (IF up THEN (q + 1) * u ELSE q * u)

\* Float addition, subtraction, multiplication by an exact factor num/den.
FAdd(a, b) == FRound(a + b)
FSub(a, b) == FRound(a - b)
FScale(a, num, den) ==
    LET p == Abs(a * num)
        d == Abs(den)
        q == (2 * p + d) \div (2 * d)
    IN  FRound(Sign(a * num) * Sign(den) * q)

\* a % b of Python floats, b > 0 (CPython float_rem): the C fmod, which is
\* exact and has the sign of a, then b added to a negative remainder; that
\* addition is a float addition, and rounds.
PyMod(a, b) ==
    LET fm == Sign(a) * (Abs(a) % b)
    IN  IF fm = 0 THEN 0
        ELSE IF fm < 0 THEN FAdd(fm, b)
        ELSE fm

\* math.sin(math.radians(a)) and math.cos(math.radians(a)), in thousandths.
HalfTurn == 180 * Deg
SinPos(t) ==
    LET p == t * (HalfTurn - t)
        den == 40500 * Deg * Deg - p
    IN  (2 * 4 * Milli * p + den) \div (2 * den)
Sin(a) ==
    LET t == a % (2 * HalfTurn)
    IN  IF t <= HalfTurn THEN SinPos(t) ELSE -SinPos(t - HalfTurn)
Cos(a) == Sin(a + HalfTurn \div 2)

\* ------------------------------------------------------------------ enums

Difficulty == {"EASY", "MEDIUM", "HARD"}
GameState == {"MENU", "PLAYING", "PAUSED", "COMPLETED"}

\* ------------------------------------------------------------------ maze

\* data/maze_data.py: one grid per difficulty, rows of cell codes (0 open,
\* 1 wall, 9 exit), and the spawn point of each.  EASY is the grid of the
\* end-to-end scenario; MEDIUM has exits on its north and west border;
\* HARD has the exit at the end of a corridor.
MAZE_DATA ==
    [d \in Difficulty |->
        CASE d = "EASY" ->
                << <<1, 1, 1, 1, 1>>,
                   <<1, 0, 0, 0, 1>>,
                   <<1, 0, 9, 0, 1>>,
                   <<1, 1, 1, 1, 1>> >>
          [] d = "MEDIUM" ->
                << <<1, 9, 1, 1>>,
                   <<1, 0, 0, 1>>,
                   <<9, 0, 0, 1>>,
                   <<1, 1, 1, 1>> >>
          [] d = "HARD" ->
                << <<1, 1, 1, 1, 1, 1>>,
                   <<1, 0, 0, 0, 0, 1>>,
                   <<1, 0, 1, 1, 9, 1>>,
                   <<1, 1, 1, 1, 1, 1>> >>]

SPAWN_POINTS == [d \in Difficulty |-> <<(3 * Cell) \div 2, (3 * Cell) \div 2>>]

\* Maze.__init__
NewMazeObject(d) ==
    [difficulty |-> d,
     maze_data  |-> MAZE_DATA[d],
     width      |-> Len(MAZE_DATA[d][1]),
     height     |-> Len(MAZE_DATA[d]),
     spawn_x    |-> SPAWN_POINTS[d][1],
     spawn_y    |-> SPAWN_POINTS[d][2]]

\* Maze.is_wall; the rows of maze_data are indexed from 0 in the program.
is_wall_open_outside(m, x, y) ==
    IF x < 0 \/ y < 0 \/ x >= m.width \/ y >= m.height
    THEN FALSE
    ELSE m.maze_data[y + 1][x + 1] = 1
is_wall(m, x, y) ==
    IF x < 0 \/ y < 0 \/ x >= m.width \/ y >= m.height
    THEN TRUE
    ELSE m.maze_data[y + 1][x + 1] = 1

\* Maze.is_exit
is_exit(m, x, y) ==
    IF x < 0 \/ y < 0 \/ x >= m.width \/ y >= m.height
    THEN FALSE
    ELSE m.maze_data[y + 1][x + 1] = 9

\* ------------------------------------------------------------------ settings

\* GameSettings.__init__: the raycasting and player defaults.  FOV is in
\* degrees, MAX_DEPTH in cells, PLAYER_SPEED in cells per second,
\* PLAYER_TURN_SPEED in degrees per second, PLAYER_RADIUS in micro-cells.
FOV == 60
NUM_RAYS == 120
MAX_DEPTH == 15
PLAYER_SPEED == 3
PLAYER_TURN_SPEED == 120
PLAYER_RADIUS == 200000

DefaultSettings ==
    [FOV               |-> FOV * Deg,
     NUM_RAYS          |-> NUM_RAYS,
     MAX_DEPTH         |-> MAX_DEPTH,
     PLAYER_SPEED      |-> PLAYER_SPEED,
     PLAYER_TURN_SPEED |-> PLAYER_TURN_SPEED,
     PLAYER_RADIUS     |-> PLAYER_RADIUS]

\* ------------------------------------------------------------------ player

FullTurn == 360 * Deg

\* The movement keys of InputHandler.get_movement_keys; a key state is the
\* set of the keys that are down.
Keys == {"forward", "backward", "strafe_left", "strafe_right", "turn_left", "turn_right"}

\* trig * length, for a trig value in thousandths and a length in micro-cells
\* that is a whole number of thousandths of a cell.
MulTrig(t, length) == t * (length \div Milli)

\* Player.__init__: the angle is stored as given.
NewPlayerObject(x, y, angle) == [x |-> x, y |-> y, angle |-> angle]

\* Player.set_angle
set_angle(p, angle) == [p EXCEPT !.angle = PyMod(angle, FullTurn)]

\* Player.turn
turn(p, angle_change) == [p EXCEPT !.angle = PyMod(FAdd(p.angle, angle_change), FullTurn)]

\* Player.set_position
set_position(p, x, y) == [p EXCEPT !.x = x, !.y = y]

\* Player.move_forward
move_forward(p, distance) ==
    [p EXCEPT !.x = p.x + MulTrig(Cos(p.angle), distance),
              !.y = p.y + MulTrig(Sin(p.angle), distance)]

\* Player._can_move_to: the four corners of the hit box, in the order of the list.
Corners(x, y, radius) ==
    << <<x - radius, y - radius>>, <<x + radius, y - radius>>,
       <<x - radius, y + radius>>, <<x + radius, y + radius>> >>

_can_move_to_three_corners(x, y, m, radius) ==
    \A k \in 1..3 :
        ~is_wall(m, PyInt(Corners(x, y, radius)[k][1]), PyInt(Corners(x, y, radius)[k][2]))
_can_move_to(x, y, m, radius) ==
    \A k \in 1..4 :
        ~is_wall(m, PyInt(Corners(x, y, radius)[k][1]), PyInt(Corners(x, y, radius)[k][2]))

\* The per-axis commit of a movement (dx, dy): Game.update lines 147-153 and
\* Player.update lines 76-82.  x is tested against the current y, then y
\* against the x that results.
ApplyMoveBoth(p, dx, dy, m, radius) ==
    IF _can_move_to(p.x + dx, p.y + dy, m, radius)
    THEN [p EXCEPT !.x = p.x + dx, !.y = p.y + dy]
    ELSE p
ApplyMove(p, dx, dy, m, radius) ==
    LET x1 == IF _can_move_to(p.x + dx, p.y, m, radius) THEN p.x + dx ELSE p.x
        y1 == IF _can_move_to(x1, p.y + dy, m, radius) THEN p.y + dy ELSE p.y
    IN  [p EXCEPT !.x = x1, !.y = y1]

\* The sum of the movement deltas of the keys that are down, for a speed in
\* micro-cells per frame and a facing angle: lines 62-73 of Player.update and
\* lines 51-58, 67-74 of _basic_movement_calculation.
Delta(keys, speed, angle) ==
    LET c == MulTrig(Cos(angle), speed)
        s == MulTrig(Sin(angle), speed)
        f == IF "forward" \in keys THEN <<c, s>> ELSE <<0, 0>>
        b == IF "backward" \in keys THEN <<-c, -s>> ELSE <<0, 0>>
        l == IF "strafe_left" \in keys THEN <<-s, c>> ELSE <<0, 0>>
        r == IF "strafe_right" \in keys THEN <<s, -c>> ELSE <<0, 0>>
    IN  <<f[1] + b[1] + l[1] + r[1], f[2] + b[2] + l[2] + r[2]>>

\* The angle turned in dt milliseconds at `rate` degrees per second, scaled
\* by tenths/10: turn_speed * factor * dt as a float.
TurnAmount(rate, tenths, dt) == FScale(dt, rate * tenths * Deg, 10 * Milli)

\* The distance covered in dt milliseconds at `rate` cells per second, scaled
\* by tenths/10, in micro-cells.
MoveAmount(rate, tenths, dt) == (rate * tenths * dt * Milli) \div 10

\* Player.update(keys, maze, dt): the new player and the returned flag.
PlayerUpdate(p, keys, m, dt, st) ==
    LET t  == TurnAmount(st.PLAYER_TURN_SPEED, 10, dt)
        a1 == IF "turn_left" \in keys THEN FSub(p.angle, t) ELSE p.angle
        a2 == IF "turn_right" \in keys THEN FAdd(a1, t) ELSE a1
        a3 == PyMod(a2, FullTurn)
        d  == Delta(keys, MoveAmount(st.PLAYER_SPEED, 10, dt), a3)
        p1 == ApplyMove([p EXCEPT !.angle = a3], d[1], d[2], m, st.PLAYER_RADIUS)
    IN  [player |-> p1, completed |-> is_exit(m, PyInt(p1.x), PyInt(p1.y))]

\* ------------------------------------------------------------------ movement strategies

Strategies == {"Easy", "Normal", "Hard"}

\* _basic_movement_calculation: (dx, dy, angle_change).
BasicMovement(keys, p, speed, turn_speed) ==
    LET d  == Delta(keys, speed, p.angle)
        c1 == IF "turn_left" \in keys THEN FSub(0, turn_speed) ELSE 0
        c2 == IF "turn_right" \in keys THEN FAdd(c1, turn_speed) ELSE c1
    IN  <<d[1], d[2], c2>>

\* The inertia of HardMovementStrategy: each component times 0.8.
InertiaOf(r) == <<(r[1] * 8) \div 10, (r[2] * 8) \div 10, FScale(r[3], 8, 10)>>

\* calculate_movement of EasyMovementStrategy, NormalMovementStrategy and
\* HardMovementStrategy; dt in milliseconds.
calculate_movement(strategy, keys, p, dt, st) ==
    IF strategy = "Easy"
    THEN BasicMovement(keys, p, MoveAmount(st.PLAYER_SPEED, 13, dt),
                       TurnAmount(st.PLAYER_TURN_SPEED, 12, dt))
    ELSE IF strategy = "Normal"
    THEN BasicMovement(keys, p, MoveAmount(st.PLAYER_SPEED, 10, dt),
                       TurnAmount(st.PLAYER_TURN_SPEED, 10, dt))
    ELSE InertiaOf(BasicMovement(keys, p, MoveAmount(st.PLAYER_SPEED, 7, dt),
                                 TurnAmount(st.PLAYER_TURN_SPEED, 8, dt)))

\* MovementStrategyFactory.create_for_difficulty
create_for_difficulty(d) ==
    IF d = "EASY" THEN "Easy" ELSE IF d = "HARD" THEN "Hard" ELSE "Normal"

\* ------------------------------------------------------------------ game

\* Game.__init__: the menu, no level; the movement context starts with the
\* strategy of MEDIUM.
NewGameObject ==
    [state              |-> "MENU",
     selected_option    |-> 0,
     current_difficulty |-> None,
     strategy           |-> create_for_difficulty("MEDIUM"),
     running            |-> TRUE]

\* The default radius of Player._can_move_to, which Game.update relies on.
DEFAULT_RADIUS == 200000

\* Game.update(dt) in state PLAYING with the design patterns available: the
\* strategy's movement committed per axis, the angle wrapped, the exit
\* tested.  Gives the new player and the new game state.
GameUpdateExitBeforeMove(g, p, m, keys, dt, st) ==
    LET mv == calculate_movement(g.strategy, keys, p, dt, st)
        p1 == ApplyMove(p, mv[1], mv[2], m, DEFAULT_RADIUS)
        p2 == [p1 EXCEPT !.angle = PyMod(FAdd(p.angle, mv[3]), FullTurn)]
    IN  [player |-> p2,
         state  |-> IF is_exit(m, PyInt(p.x), PyInt(p.y)) THEN "COMPLETED" ELSE g.state]
GameUpdate(g, p, m, keys, dt, st) ==
    LET mv == calculate_movement(g.strategy, keys, p, dt, st)
        p1 == ApplyMove(p, mv[1], mv[2], m, DEFAULT_RADIUS)
        p2 == [p1 EXCEPT !.angle = PyMod(FAdd(p.angle, mv[3]), FullTurn)]
    IN  [player |-> p2,
         state  |-> IF is_exit(m, PyInt(p2.x), PyInt(p2.y)) THEN "COMPLETED" ELSE g.state]

\* ------------------------------------------------------------------ raycaster

\* step of Raycaster._cast_single_ray: 0.02 cells, in micro-cells.
step == 20000

\* Raycaster._update_settings: the division raises ZeroDivisionError when
\* NUM_RAYS is 0; otherwise the derived step is stored.
_update_settings_raises(st) == st.NUM_RAYS = 0
_update_settings_cached(rc, st) == rc
_update_settings(rc, st) == [rc EXCEPT !.delta_angle = FScale(st.FOV, 1, st.NUM_RAYS)]

\* Raycaster.__init__
NewRaycasterObject(st) ==
    _update_settings([half_fov |-> FScale(st.FOV, 1, 2), delta_angle |-> 0], st)

\* int(self.settings.MAX_DEPTH / step)
NumSteps(st) == (st.MAX_DEPTH * Cell) \div step

\* The return value of _cast_single_ray when sample i is the first in a wall.
HitRecordByY(p, dx, dy, i) ==
    LET distance == i * step
        x == p.x + MulTrig(dx, distance)
        y == p.y + MulTrig(dy, distance)
        prev_y == p.y + MulTrig(dy, distance - step)
        hit_vertical == PyInt(prev_y) # PyInt(y)
    IN  [distance     |-> distance,
         wall_x       |-> x,
         wall_y       |-> y,
         texture_u    |-> IF hit_vertical THEN y - PyInt(y) * Cell ELSE x - PyInt(x) * Cell,
         hit_vertical |-> hit_vertical]
HitRecordNextSample(p, dx, dy, i) ==
    LET distance == (i + 1) * step
        x == p.x + MulTrig(dx, distance)
        y == p.y + MulTrig(dy, distance)
        prev_x == p.x + MulTrig(dx, distance - step)
        hit_vertical == PyInt(prev_x) # PyInt(x)
    IN  [distance     |-> distance,
         wall_x       |-> x,
         wall_y       |-> y,
         texture_u    |-> IF hit_vertical THEN y - PyInt(y) * Cell ELSE x - PyInt(x) * Cell,
         hit_vertical |-> hit_vertical]
HitRecord(p, dx, dy, i) ==
    LET distance == i * step
        x == p.x + MulTrig(dx, distance)
        y == p.y + MulTrig(dy, distance)
        wall_x == x - PyInt(x) * Cell
        wall_y == y - PyInt(y) * Cell
        prev_x == p.x + MulTrig(dx, distance - step)
        hit_vertical == PyInt(prev_x) # PyInt(x)
    IN  [distance     |-> distance,
         wall_x       |-> x,
         wall_y       |-> y,
         texture_u    |-> IF hit_vertical THEN wall_y ELSE wall_x,
         hit_vertical |-> hit_vertical]

\* The return value of _cast_single_ray when no sample is in a wall.
NoHitRecord(st) ==
    [distance |-> st.MAX_DEPTH * Cell, wall_x |-> 0, wall_y |-> 0,
     texture_u |-> 0, hit_vertical |-> FALSE]

\* Whether sample i of the ray from p along (dx, dy) lies in a wall cell.
SampleInWall(p, m, dx, dy, i) ==
    is_wall(m, PyInt(p.x + MulTrig(dx, i * step)), PyInt(p.y + MulTrig(dy, i * step)))

\* The loop of _cast_single_ray over the samples 0..n-1: it returns at the
\* first sample in a wall, and falls through when there is none.
March(p, m, st, dx, dy, n) ==
    IF \E i \in 0..(n - 1) : SampleInWall(p, m, dx, dy, i)
    THEN HitRecord(p, dx, dy,
                   CHOOSE i \in 0..(n - 1) :
                       /\ SampleInWall(p, m, dx, dy, i)
                       /\ \A j \in 0..(i - 1) : ~SampleInWall(p, m, dx, dy, j))
    ELSE NoHitRecord(st)

\* Raycaster._cast_single_ray(angle)
_cast_single_ray(p, m, st, angle) ==
    March(p, m, st, Cos(angle), Sin(angle), NumSteps(st))

\* The angle of ray i (from 0) of cast_rays.
RayAngle(rc, p, i) == FAdd(FSub(p.angle, rc.half_fov), FRound(i * rc.delta_angle))

\* The record cast_rays appends for ray i: the march's data with the
\* distance multiplied by the cosine of the ray's offset.
RayRecordUncorrected(rc, p, m, st, i) ==
    LET angle    == RayAngle(rc, p, i)
        ray_data == _cast_single_ray(p, m, st, angle)
    IN  [distance     |-> ray_data.distance,
         angle        |-> angle,
         wall_x       |-> ray_data.wall_x,
         wall_y       |-> ray_data.wall_y,
         texture_u    |-> ray_data.texture_u,
         hit_vertical |-> ray_data.hit_vertical]
RayRecord(rc, p, m, st, i) ==
    LET angle    == RayAngle(rc, p, i)
        ray_data == _cast_single_ray(p, m, st, angle)
    IN  [distance     |-> MulTrig(Cos(FSub(angle, p.angle)), ray_data.distance),
         angle        |-> angle,
         wall_x       |-> ray_data.wall_x,
         wall_y       |-> ray_data.wall_y,
         texture_u    |-> ray_data.texture_u,
         hit_vertical |-> ray_data.hit_vertical]

\* Raycaster.cast_rays, single-threaded: the list of records, for a
\* raycaster whose settings have been updated.
cast_rays_from_one(rc, p, m, st) ==
    [k \in 1..st.NUM_RAYS |-> RayRecord(rc, p, m, st, k)]
cast_rays(rc, p, m, st) ==
    [k \in 1..st.NUM_RAYS |-> RayRecord(rc, p, m, st, k - 1)]

\* The values _cast_single_ray returned to that call of cast_rays.
Marches(rc, p, m, st) ==
    [k \in 1..st.NUM_RAYS |-> _cast_single_ray(p, m, st, RayAngle(rc, p, k - 1))]

\* Game.start_level(difficulty): the new game, maze, player and raycaster.
start_level_keeps_strategy(g, d, st) ==
    [game      |-> [g EXCEPT !.current_difficulty = d,
                             !.state = "PLAYING"],
     maze      |-> NewMazeObject(d),
     player    |-> NewPlayerObject(NewMazeObject(d).spawn_x, NewMazeObject(d).spawn_y, 0),
     raycaster |-> NewRaycasterObject(st)]
start_level(g, d, st) ==
    [game      |-> [g EXCEPT !.current_difficulty = d,
                             !.strategy = create_for_difficulty(d),
                             !.state = "PLAYING"],
     maze      |-> NewMazeObject(d),
     player    |-> NewPlayerObject(NewMazeObject(d).spawn_x, NewMazeObject(d).spawn_y, 0),
     raycaster |-> NewRaycasterObject(st)]

\* ------------------------------------------------------------------ bounds and inputs

MaxSteps == 2          \* calls made in one run of the player harness
Margin == 2            \* how far outside the grid a cell query goes
MaxNumRays == 4        \* NUM_RAYS ranges over 1..MaxNumRays in the raycaster harness
MaxDepth == 2          \* MAX_DEPTH ranges over 1..MaxDepth in the raycaster harness

\* Angles given to Player(...), set_angle and turn, all representable:
\* -400, -1/4, 10, 90 and 450 degrees.
AngleArgs == {-400 * Deg, -1, 10 * Deg, 90 * Deg, 450 * Deg}

\* Positions given to Player(...) and set_position: the centres of the open
\* cells (1,1) and (2,1), and a point of cell (1,2) off its centre.
PositionArgs ==
    {<<(3 * Cell) \div 2, (3 * Cell) \div 2>>,
     <<(5 * Cell) \div 2, (3 * Cell) \div 2>>,
     <<(5 * Cell) \div 4, (5 * Cell) \div 2>>}

\* Centres of the exit cells of the three grids, where set_position puts the
\* player when the cell is the exit of the running level.
ExitArgs ==
    {<<(5 * Cell) \div 2, (5 * Cell) \div 2>>,
     <<(3 * Cell) \div 2, Cell \div 2>>,
     <<Cell \div 2, (5 * Cell) \div 2>>,
     <<(9 * Cell) \div 2, (5 * Cell) \div 2>>}

\* Frame times (milliseconds) of the game driven event by event: a usual
\* frame and a stalled one.
LongDtArgs == {100, 400}

\* Distances given to move_forward: one cell forward, half a cell back.
DistanceArgs == {Cell, -(Cell \div 2)}

\* Key states and frame times (milliseconds) given to the update steps.
KeyArgs ==
    {{}, {"forward"}, {"backward", "strafe_left"}, {"turn_left"}, {"turn_right"},
     {"forward", "strafe_right", "turn_left"}}
DtArgs == {100}

\* Key states of the game driven event by event: those of KeyArgs, and a
\* step sideways.
WalkKeyArgs == KeyArgs \cup {{"strafe_right"}}

\* Points and radii given to _can_move_to called on its own.
ProbeArgs ==
    {<<(3 * Cell) \div 2, (3 * Cell) \div 2>>, <<(11 * Cell) \div 10, (3 * Cell) \div 2>>,
     <<(19 * Cell) \div 10, (19 * Cell) \div 10>>, <<(3 * Cell) \div 2, Cell \div 10>>}
RadiusArgs == {PLAYER_RADIUS, Cell \div 2}

\* The turns of the raycaster harness: 15 degrees either way.
RayTurnArgs == {15 * Deg, -15 * Deg}

\* ------------------------------------------------------------------ the frame loop, threads

NumThreads == 2        \* threads that call GameSettings() and get_settings()
MaxWrites == 1         \* assignments by the other thread during one cast_rays() call
MaxFrames == 2         \* iterations of the loop of Game.run
MaxEvents == 2         \* events pygame.event.get() returns in one frame
MaxFps == 70           \* frame rates given to adapt_performance range over 0..MaxFps
Threads == 1..NumThreads

\* Game.run has not been called.
NoFrame == [pc |-> "not_running", calls |-> <<>>, raised |-> "none"]

\* No cast_rays() call is in progress.
NoCast == [pc |-> "idle"]

\* The class GameSettings as loaded: _instance None (0), _lock free (0); no
\* object made, none initialised, none returned; every thread idle.
ClassLoaded ==
    [_instance   |-> 0,
     _lock       |-> 0,
     created     |-> 0,
     initialized |-> {},
     returned    |-> {},
     waited      |-> {},
     pc          |-> [t \in Threads |-> "idle"],
     self        |-> [t \in Threads |-> 0]]

\* Object identity.  Objects are numbered, 0 standing for None: refs.maze and
\* refs.player are the objects the game (or the caller) holds, and
\* refs.raycaster_player, refs.raycaster_maze are self.player and self.maze of
\* the raycaster.  A new object differs from every object still referenced.
NoRefs == [maze |-> 0, player |-> 0, raycaster_player |-> 0, raycaster_maze |-> 0]
Fresh(live) == CHOOSE i \in 1..3 : i \notin live /\ \A j \in 1..(i - 1) : j \in live

\* Maze(...), Player(...) and Raycaster(player, maze) (raycaster.py lines 12-13).
refs_new_maze(rf) == [rf EXCEPT !.maze = Fresh({rf.maze, rf.raycaster_maze})]
refs_new_player(rf) == [rf EXCEPT !.player = Fresh({rf.player, rf.raycaster_player})]
refs_new_raycaster_stale(rf) == rf
refs_new_raycaster(rf) == [rf EXCEPT !.raycaster_player = rf.player, !.raycaster_maze = rf.maze]

\* The three constructions of Game.start_level, in its order.
refs_start_level(rf) == refs_new_raycaster(refs_new_player(refs_new_maze(rf)))

ElsewhereIdle == frame = NoFrame /\ cast = NoCast /\ singleton = ClassLoaded

\* ------------------------------------------------------------------ actions

Nothing ==
    /\ game = NewGameObject
    /\ maze = None
    /\ player = None
    /\ settings = DefaultSettings
    /\ raycaster = None
    /\ last = [op |-> "Game"]
    /\ steps = 0
    /\ ElsewhereIdle
    /\ refs = NoRefs

\* Maze(d)
ConstructMaze(d) ==
    /\ maze' = NewMazeObject(d)
    /\ refs' = refs_new_maze(refs)
    /\ last' = [op |-> "Maze", difficulty |-> d]
    /\ UNCHANGED <<game, player, settings, raycaster, steps>>
    /\ UNCHANGED elsewhere

\* maze.is_wall(x, y) and maze.is_exit(x, y)
QueryCell(x, y) ==
    /\ maze # None
    /\ last' = [op |-> "is_wall/is_exit", x |-> x, y |-> y,
                wall |-> is_wall(maze, x, y), exit |-> is_exit(maze, x, y)]
    /\ UNCHANGED <<game, maze, player, settings, raycaster, steps>>
    /\ UNCHANGED unbound

\* game.start_level(d)
StartLevel(d) ==
    /\ steps < MaxSteps
    /\ LET r == start_level(game, d, settings)
       IN  /\ game' = r.game
           /\ maze' = r.maze
           /\ player' = r.player
           /\ raycaster' = r.raycaster
    /\ refs' = refs_start_level(refs)
    /\ last' = [op |-> "start_level", difficulty |-> d, from |-> game.state, old |-> refs]
    /\ steps' = steps + 1
    /\ UNCHANGED settings
    /\ UNCHANGED elsewhere

\* Player(x, y, angle)
ConstructPlayer(pos, a) ==
    /\ steps < MaxSteps
    /\ player' = NewPlayerObject(pos[1], pos[2], a)
    /\ refs' = refs_new_player(refs)
    /\ last' = [op |-> "Player", angle |-> a]
    /\ steps' = steps + 1
    /\ UNCHANGED <<game, maze, settings, raycaster>>
    /\ UNCHANGED elsewhere

\* player.set_angle(a)
SetAngle(a) ==
    /\ steps < MaxSteps
    /\ player # None
    /\ player' = set_angle(player, a)
    /\ last' = [op |-> "set_angle", angle |-> a, before |-> player]
    /\ steps' = steps + 1
    /\ UNCHANGED <<game, maze, settings, raycaster>>
    /\ UNCHANGED unbound

\* player.turn(a)
Turn(a) ==
    /\ steps < MaxSteps
    /\ player # None
    /\ player' = turn(player, a)
    /\ last' = [op |-> "turn", angle |-> a, before |-> player]
    /\ steps' = steps + 1
    /\ UNCHANGED <<game, maze, settings, raycaster>>
    /\ UNCHANGED unbound

\* player.set_position(x, y)
SetPosition(pos) ==
    /\ steps < MaxSteps
    /\ player # None
    /\ player' = set_position(player, pos[1], pos[2])
    /\ last' = [op |-> "set_position"]
    /\ steps' = steps + 1
    /\ UNCHANGED <<game, maze, settings, raycaster>>
    /\ UNCHANGED unbound

\* player.move_forward(distance)
MoveForward(distance) ==
    /\ steps < MaxSteps
    /\ player # None
    /\ player' = move_forward(player, distance)
    /\ last' = [op |-> "move_forward"]
    /\ steps' = steps + 1
    /\ UNCHANGED <<game, maze, settings, raycaster>>
    /\ UNCHANGED unbound

\* player.update(keys, maze, dt)
PlayerUpdateStep(keys, dt) ==
    /\ steps < MaxSteps
    /\ player # None
    /\ maze # None
    /\ LET r == PlayerUpdate(player, keys, maze, dt, settings)
       IN  /\ player' = r.player
           /\ last' = [op |-> "Player.update", before |-> player,
                       dx |-> Delta(keys, MoveAmount(settings.PLAYER_SPEED, 10, dt),
                                    r.player.angle)[1],
                       dy |-> Delta(keys, MoveAmount(settings.PLAYER_SPEED, 10, dt),
                                    r.player.angle)[2],
                       radius |-> settings.PLAYER_RADIUS,
                       completed |-> r.completed]
    /\ steps' = steps + 1
    /\ UNCHANGED <<game, maze, settings, raycaster>>
    /\ UNCHANGED unbound

\* game.update(dt) with the keys that are down; it does nothing unless the
\* state is PLAYING.
GameUpdateStep(keys, dt) ==
    /\ steps < MaxSteps
    /\ game.state = "PLAYING"
    /\ LET r == GameUpdate(game, player, maze, keys, dt, settings)
       IN  /\ player' = r.player
           /\ game' = [game EXCEPT !.state = r.state]
           /\ last' = [op |-> "Game.update", before |-> player,
                       dx |-> calculate_movement(game.strategy, keys, player, dt, settings)[1],
                       dy |-> calculate_movement(game.strategy, keys, player, dt, settings)[2],
                       radius |-> DEFAULT_RADIUS]
    /\ steps' = steps + 1
    /\ UNCHANGED <<maze, settings, raycaster>>
    /\ UNCHANGED unbound

\* player._can_move_to(x, y, maze, radius), called on its own
CanMoveTo(pos, radius) ==
    /\ steps < MaxSteps
    /\ player # None
    /\ maze # None
    /\ last' = [op |-> "_can_move_to", x |-> pos[1], y |-> pos[2], radius |-> radius,
                result |-> _can_move_to(pos[1], pos[2], maze, radius)]
    /\ steps' = steps + 1
    /\ UNCHANGED <<game, maze, player, settings, raycaster>>
    /\ UNCHANGED unbound

\* The quality parameters of the cast before the last writes to them, when
\* the last calls were a cast and then writes; None otherwise.
EarlierCast ==
    IF last.op = "cast_rays" THEN [NUM_RAYS |-> settings.NUM_RAYS, MAX_DEPTH |-> settings.MAX_DEPTH]
    ELSE IF last.op = "write" THEN last.earlier
    ELSE None

\* A cast that leaves the player turned to the first ray's direction.
CastRaysTurningPlayer ==
    /\ raycaster # None
    /\ ~_update_settings_raises(settings)
    /\ raycaster' = _update_settings(raycaster, settings)
    /\ player' = turn(player, 0 - (settings.FOV \div 2))
    /\ last' = [op |-> "cast_rays", raised |-> "none",
                rays |-> cast_rays(raycaster', player, maze, settings),
                marches |-> Marches(raycaster', player, maze, settings),
                earlier |-> None]
    /\ UNCHANGED <<game, maze, settings, steps>>
    /\ UNCHANGED unbound

\* raycaster.cast_rays(): the derived step is refreshed, then the rays cast.
\* With NUM_RAYS = 0 the refresh raises and the call ends there.
CastRays ==
    /\ raycaster # None
    /\ IF _update_settings_raises(settings)
       THEN /\ UNCHANGED raycaster
            /\ last' = [op |-> "cast_rays", raised |-> "ZeroDivisionError",
                        rays |-> <<>>, marches |-> <<>>,
                        earlier |-> IF last.op = "write" THEN last.earlier ELSE None]
       ELSE /\ raycaster' = _update_settings(raycaster, settings)
            /\ last' = [op |-> "cast_rays", raised |-> "none",
                        rays |-> cast_rays(raycaster', player, maze, settings),
                        marches |-> Marches(raycaster', player, maze, settings),
                        earlier |-> IF last.op = "write" THEN last.earlier ELSE None]
    /\ UNCHANGED <<game, maze, player, settings, steps>>
    /\ UNCHANGED unbound

\* settings.NUM_RAYS = v or settings.MAX_DEPTH = v: one of the attribute
\* writes of adapt_performance, for a value v.
WriteQuality(name, v) ==
    /\ settings' = [settings EXCEPT ![name] = v]
    /\ last' = [op |-> "write", earlier |-> EarlierCast]
    /\ UNCHANGED <<game, maze, player, raycaster, steps>>
    /\ UNCHANGED unbound

\* Raycaster(player, maze): __init__ validates nothing; its call of
\* _update_settings raises when NUM_RAYS is 0, and no object is made then.
ConstructRaycaster ==
    /\ player # None
    /\ maze # None
    /\ IF _update_settings_raises(settings)
       THEN /\ UNCHANGED <<raycaster, refs>>
            /\ last' = [op |-> "Raycaster", raised |-> "ZeroDivisionError", made |-> FALSE]
       ELSE /\ raycaster' = NewRaycasterObject(settings)
            /\ refs' = refs_new_raycaster(refs)
            /\ last' = [op |-> "Raycaster", raised |-> "none", made |-> TRUE]
    /\ UNCHANGED <<game, maze, player, settings, steps>>
    /\ UNCHANGED elsewhere

\* ---- cast_rays() statement by statement, for a run in which another thread
\* ---- writes the quality parameters while the call is in progress.

\* Whether the loop of _cast_single_ray returns from inside (a sample in a wall).
Hits(p, m, st, angle) ==
    \E k \in 0..(NumSteps(st) - 1) : SampleInWall(p, m, Cos(angle), Sin(angle), k)

\* The record cast_rays appends for a ray at `angle` whose march returned ray_data.
Corrected(p, angle, ray_data) ==
    [distance     |-> MulTrig(Cos(FSub(angle, p.angle)), ray_data.distance),
     angle        |-> angle,
     wall_x       |-> ray_data.wall_x,
     wall_y       |-> ray_data.wall_y,
     texture_u    |-> ray_data.texture_u,
     hit_vertical |-> ray_data.hit_vertical]

\* The call starts.  num_rays0 and max_depth0 remember the parameters at that
\* moment; the code keeps no such copy.
CastCall ==
    /\ cast.pc = "idle"
    /\ raycaster # None
    /\ cast' = [pc |-> "update_settings", writes |-> 0,
                num_rays0 |-> settings.NUM_RAYS, max_depth0 |-> settings.MAX_DEPTH]
    /\ last' = [op |-> "cast_rays called"]
    /\ UNCHANGED <<game, maze, player, settings, raycaster, steps, frame, singleton, refs>>

\* The other thread assigns a quality parameter (as adapt_performance does,
\* lines 65-66 and 69-70), at most MaxWrites times while a call is running.
ThreadWrite(name, v) ==
    /\ settings' = [settings EXCEPT ![name] = v]
    /\ IF cast.pc = "idle"
       THEN UNCHANGED cast
       ELSE /\ cast.writes < MaxWrites
            /\ cast' = [cast EXCEPT !.writes = @ + 1]
    /\ UNCHANGED <<game, maze, player, raycaster, last, steps, frame, singleton, refs>>

\* Line 29, self._update_settings(): delta_angle = FOV / NUM_RAYS; lines 31-32.
CastUpdateSettings ==
    /\ cast.pc = "update_settings"
    /\ ~_update_settings_raises(settings)
    /\ raycaster' = _update_settings(raycaster, settings)
    /\ cast' = [pc |-> "range", writes |-> cast.writes,
                num_rays0 |-> cast.num_rays0, max_depth0 |-> cast.max_depth0,
                start_angle |-> FSub(player.angle, raycaster.half_fov),
                rays |-> <<>>, marches |-> <<>>, depths |-> <<>>]
    /\ UNCHANGED <<game, maze, player, settings, last, steps, frame, singleton, refs>>

\* Line 35, range(self.settings.NUM_RAYS): the count of the loop is fixed here.
CastRange ==
    /\ cast.pc = "range"
    /\ cast' = [pc |-> "march", writes |-> cast.writes,
                num_rays0 |-> cast.num_rays0, max_depth0 |-> cast.max_depth0,
                start_angle |-> cast.start_angle,
                rays |-> <<>>, marches |-> <<>>, depths |-> <<>>,
                n |-> settings.NUM_RAYS, i |-> 0, angle |-> 0]
    /\ UNCHANGED <<game, maze, player, settings, raycaster, last, steps, frame, singleton, refs>>

\* Lines 36-37 and 54-90: the angle of ray i from the current delta_angle, and
\* the loop of its march over range(int(MAX_DEPTH / step)).  A march that
\* hits returns its record, which lines 40-50 append; one that does not goes
\* on to line 92.
CastMarch ==
    /\ cast.pc = "march"
    /\ cast.i < cast.n
    /\ LET angle == FAdd(cast.start_angle, FRound(cast.i * raycaster.delta_angle))
           ray_data == _cast_single_ray(player, maze, settings, angle)
       IN  IF Hits(player, maze, settings, angle)
           THEN cast' = [cast EXCEPT !.rays = Append(@, Corrected(player, angle, ray_data)),
                                     !.marches = Append(@, ray_data),
                                     !.depths = Append(@, settings.MAX_DEPTH),
                                     !.i = @ + 1]
           ELSE cast' = [cast EXCEPT !.pc = "sentinel",
                                     !.angle = angle,
                                     !.depths = Append(@, settings.MAX_DEPTH)]
    /\ UNCHANGED <<game, maze, player, settings, raycaster, last, steps, frame, singleton, refs>>

\* Lines 92-98: the sentinel record, with MAX_DEPTH read again; lines 40-50.
CastSentinel ==
    /\ cast.pc = "sentinel"
    /\ cast' = [cast EXCEPT !.pc = "march",
                            !.rays = Append(@, Corrected(player, cast.angle, NoHitRecord(settings))),
                            !.marches = Append(@, NoHitRecord(settings)),
                            !.i = @ + 1]
    /\ UNCHANGED <<game, maze, player, settings, raycaster, last, steps, frame, singleton, refs>>

\* Line 52, return rays.
CastReturn ==
    /\ cast.pc = "march"
    /\ cast.i >= cast.n
    /\ last' = [op |-> "cast_rays", raised |-> "none",
                rays |-> cast.rays, marches |-> cast.marches, earlier |-> None,
                n |-> cast.n, depths |-> cast.depths,
                num_rays0 |-> cast.num_rays0, max_depth0 |-> cast.max_depth0]
    /\ cast' = NoCast
    /\ UNCHANGED <<game, maze, player, settings, raycaster, steps, frame, singleton, refs>>

\* The raycaster harness turns and places the player between casts.
RayTurn(a) ==
    /\ player' = turn(player, a)
    /\ last' = [op |-> "turn"]
    /\ UNCHANGED <<game, maze, settings, raycaster, steps>>
    /\ UNCHANGED unbound

RayPlace(pos) ==
    /\ player' = set_position(player, pos[1], pos[2])
    /\ last' = [op |-> "set_position"]
    /\ UNCHANGED <<game, maze, settings, raycaster, steps>>
    /\ UNCHANGED unbound

\* ------------------------------------------------------------------ specifications

\* The maze on its own: a maze is built and its cells are queried.
MazeNext ==
    \/ \E d \in Difficulty : ConstructMaze(d)
    \/ /\ maze # None
       /\ \E x \in (0 - Margin)..(maze.width - 1 + Margin),
             y \in (0 - Margin)..(maze.height - 1 + Margin) : QueryCell(x, y)
SpecMaze == Nothing /\ [][MazeNext]_vars

\* ---- Game.run: the frame loop

\* Events of one frame: the window's close button and key presses.
Events == {"QUIT", "K_UP", "K_DOWN", "K_RETURN", "K_SPACE", "K_ESCAPE", "K_OTHER"}
EventArgs == UNION {[1..n -> Events] : n \in 0..MaxEvents}

\* Frame rates clock.get_fps() reports: below 30, between 30 and 55, above 55.
FpsArgs == {20, 45, 60}

\* The objects a Game holds, and the exception that left the last call.
World(g, m, p, rc, rf, raised) ==
    [game |-> g, maze |-> m, player |-> p, raycaster |-> rc, refs |-> rf, raised |-> raised]

\* start_level called from the menu: when Raycaster(...) raises, the
\* difficulty, the maze and the player are already assigned, the raycaster,
\* the strategy and the state are not.
start_level_from_menu(w, d, st) ==
    IF _update_settings_raises(st)
    THEN World([w.game EXCEPT !.current_difficulty = d],
               start_level(w.game, d, DefaultSettings).maze,
               start_level(w.game, d, DefaultSettings).player,
               w.raycaster, refs_new_player(refs_new_maze(w.refs)), "ZeroDivisionError")
    ELSE World(start_level(w.game, d, st).game, start_level(w.game, d, st).maze,
               start_level(w.game, d, st).player, start_level(w.game, d, st).raycaster,
               refs_start_level(w.refs), "none")

\* Game._handle_menu_input
_handle_menu_input(w, key, st) ==
    IF key = "K_UP"
    THEN [w EXCEPT !.game.selected_option = (@ - 1) % 4]
    ELSE IF key = "K_DOWN"
    THEN [w EXCEPT !.game.selected_option = (@ + 1) % 4]
    ELSE IF key \in {"K_RETURN", "K_SPACE"}
    THEN IF w.game.selected_option = 0 THEN start_level_from_menu(w, "EASY", st)
         ELSE IF w.game.selected_option = 1 THEN start_level_from_menu(w, "MEDIUM", st)
         ELSE IF w.game.selected_option = 2 THEN start_level_from_menu(w, "HARD", st)
         ELSE [w EXCEPT !.game.running = FALSE]
    ELSE w

\* Game._handle_game_input
_handle_game_input(w, key) ==
    IF key = "K_ESCAPE" THEN [w EXCEPT !.game.state = "MENU"]
    ELSE IF key = "K_SPACE" THEN [w EXCEPT !.game.state = "PAUSED"]
    ELSE w

\* A pause that any key but ESC ends.
_handle_pause_input_any_key(w, key) ==
    IF key = "K_ESCAPE" THEN [w EXCEPT !.game.state = "MENU"]
    ELSE [w EXCEPT !.game.state = "PLAYING"]

\* Game._handle_pause_input
_handle_pause_input(w, key) ==
    IF key = "K_SPACE" THEN [w EXCEPT !.game.state = "PLAYING"]
    ELSE IF key = "K_ESCAPE" THEN [w EXCEPT !.game.state = "MENU"]
    ELSE w

\* Game._handle_completion_input
_handle_completion_input(w, key) ==
    IF key \in {"K_SPACE", "K_RETURN"} THEN [w EXCEPT !.game.state = "MENU"] ELSE w

\* The body of the loop of Game.handle_events for one event.
handle_event(w, e, st) ==
    IF e = "QUIT" THEN [w EXCEPT !.game.running = FALSE]
    ELSE IF w.game.state = "MENU" THEN _handle_menu_input(w, e, st)
    ELSE IF w.game.state = "PLAYING" THEN _handle_game_input(w, e)
    ELSE IF w.game.state = "PAUSED" THEN _handle_pause_input(w, e)
    ELSE _handle_completion_input(w, e)

\* Game.handle_events: the events in order; an exception ends the loop.
RECURSIVE handle_events(_, _, _)
handle_events(w, events, st) ==
    IF events = <<>> \/ w.raised # "none"
    THEN w
    ELSE handle_events(handle_event(w, Head(events), st), Tail(events), st)

\* One KEYDOWN or QUIT event reaches Game.handle_events.
KeyDown(e) ==
    /\ LET w == handle_event(World(game, maze, player, raycaster, refs, "none"), e, settings)
       IN  /\ game' = w.game
           /\ maze' = w.maze
           /\ player' = w.player
           /\ raycaster' = w.raycaster
           /\ refs' = w.refs
    /\ last' = [op |-> "event", event |-> e, from |-> game.state]
    /\ UNCHANGED <<settings, steps>>
    /\ UNCHANGED elsewhere

\* GameSettings.adapt_performance(fps): the settings it leaves.
\* An adaptation that halves and doubles the quality parameters.
adapt_performance_scaling(st, fps) ==
    IF fps < 30 THEN [st EXCEPT !.NUM_RAYS = @ \div 2, !.MAX_DEPTH = @ \div 2]
    ELSE IF fps > 55 THEN [st EXCEPT !.NUM_RAYS = 2 * @, !.MAX_DEPTH = 2 * @]
    ELSE st
adapt_performance_inclusive(st, fps) ==
    IF fps <= 30 THEN [st EXCEPT !.NUM_RAYS = 60, !.MAX_DEPTH = 8]
    ELSE IF fps >= 55 THEN [st EXCEPT !.NUM_RAYS = 150, !.MAX_DEPTH = 20]
    ELSE st
adapt_performance(st, fps) ==
    IF fps < 30 THEN [st EXCEPT !.NUM_RAYS = 60, !.MAX_DEPTH = 8]
    ELSE IF fps > 55 THEN [st EXCEPT !.NUM_RAYS = 150, !.MAX_DEPTH = 20]
    ELSE st

\* GameSettings.adapt_performance(fps): the string it returns.
adapt_performance_returns(fps) ==
    IF fps < 30 THEN "reduced" ELSE IF fps > 55 THEN "increased" ELSE "unchanged"

\* settings.adapt_performance(fps) called on its own, as the tests do.
AdaptPerformance(fps) ==
    /\ settings # None
    /\ settings' = adapt_performance(settings, fps)
    /\ last' = [op |-> "adapt_performance", fps |-> fps,
                before |-> [NUM_RAYS |-> settings.NUM_RAYS, MAX_DEPTH |-> settings.MAX_DEPTH],
                returned |-> adapt_performance_returns(fps)]
    /\ UNCHANGED <<game, maze, player, raycaster, steps>>
    /\ UNCHANGED unbound

\* raycaster.cast_rays() as Game.render calls it: the derived step is
\* refreshed, or the division raises; the records go to the renderer.
cast_rays_in_frame(rc, st, calls) ==
    [settings  |-> st,
     raycaster |-> IF _update_settings_raises(st) THEN rc ELSE _update_settings(rc, st),
     calls     |-> Append(calls, "cast_rays"),
     raised    |-> IF _update_settings_raises(st) THEN "ZeroDivisionError" ELSE "none"]

\* Game.render: the calls it makes, the settings and the raycaster it leaves.
render_cast_first(g, rc, st, fps) ==
    IF g.state = "PLAYING"
    THEN [cast_rays_in_frame(rc, st, <<>>) EXCEPT
              !.settings = adapt_performance(st, fps),
              !.calls = Append(@, "adapt_performance")]
    ELSE IF g.state = "PAUSED"
    THEN cast_rays_in_frame(rc, st, <<>>)
    ELSE [settings |-> st, raycaster |-> rc, calls |-> <<>>, raised |-> "none"]
render(g, rc, st, fps) ==
    IF g.state = "PLAYING"
    THEN cast_rays_in_frame(rc, adapt_performance(st, fps), <<"adapt_performance">>)
    ELSE IF g.state = "PAUSED"
    THEN cast_rays_in_frame(rc, st, <<>>)
    ELSE [settings |-> st, raycaster |-> rc, calls |-> <<>>, raised |-> "none"]

\* Where the loop goes after a call: on, or out of run() with the exception,
\* which main() reports before the process ends.
AfterCall(raised, next) == IF raised = "none" THEN next ELSE "terminated"

\* while self.running: ... ; pygame.quit(); sys.exit()
RunTest ==
    /\ frame.pc = "loop"
    /\ IF game.running
       THEN /\ steps < MaxFrames
            /\ steps' = steps + 1
            /\ frame' = [pc |-> "handle_events", calls |-> <<>>, raised |-> "none"]
       ELSE /\ frame' = [frame EXCEPT !.pc = "exited"]
            /\ UNCHANGED steps
    /\ last' = [op |-> "run"]
    /\ UNCHANGED <<game, maze, player, settings, raycaster, cast, singleton, refs>>

\* self.handle_events()
HandleEvents(events) ==
    /\ frame.pc = "handle_events"
    /\ LET w == handle_events(World(game, maze, player, raycaster, refs, "none"),
                              events, settings)
       IN  /\ game' = w.game
           /\ refs' = w.refs
           /\ maze' = w.maze
           /\ player' = w.player
           /\ raycaster' = w.raycaster
           /\ frame' = [pc |-> AfterCall(w.raised, "update"),
                        calls |-> Append(frame.calls, "handle_events"),
                        raised |-> w.raised]
    /\ last' = [op |-> "handle_events"]
    /\ UNCHANGED <<settings, steps, cast, singleton>>

\* self.update(dt)
Update(keys, dt) ==
    /\ frame.pc = "update"
    /\ IF game.state = "PLAYING"
       THEN /\ player' = GameUpdate(game, player, maze, keys, dt, settings).player
            /\ game' = [game EXCEPT
                            !.state = GameUpdate(game, player, maze, keys, dt, settings).state]
       ELSE UNCHANGED <<game, player>>
    /\ frame' = [frame EXCEPT !.pc = "render", !.calls = Append(@, "update")]
    /\ last' = [op |-> "update"]
    /\ UNCHANGED <<maze, settings, raycaster, steps, cast, singleton, refs>>

\* self.render()
Render(fps) ==
    /\ frame.pc = "render"
    /\ LET r == render(game, raycaster, settings, fps)
       IN  /\ settings' = r.settings
           /\ raycaster' = r.raycaster
           /\ frame' = [pc |-> AfterCall(r.raised, "loop"),
                        calls |-> Append(frame.calls, "render") \o r.calls,
                        raised |-> r.raised]
    /\ last' = [op |-> "render"]
    /\ UNCHANGED <<game, maze, player, steps, cast, singleton, refs>>

\* ---- GameSettings(), statement by statement, called from several threads

\* What a call leaves alone besides the class and the settings object.
NotTheClass == <<game, maze, player, raycaster, last, steps, frame, cast, refs>>

\* A thread moves on to the statement `to`.
Goto(t, to) == [singleton EXCEPT !.pc[t] = to]

\* GameSettings() or get_settings() is called.
SingletonCall(t) ==
    /\ singleton.pc[t] = "idle"
    /\ singleton' = Goto(t, "line 18")
    /\ UNCHANGED settings
    /\ UNCHANGED NotTheClass

\* Line 18, if cls._instance is None
FirstCheck(t) ==
    /\ singleton.pc[t] = "line 18"
    /\ singleton' = Goto(t, IF singleton._instance = 0 THEN "line 19" ELSE "line 23")
    /\ UNCHANGED settings
    /\ UNCHANGED NotTheClass

\* Line 19, with cls._lock: the lock is taken when it is free.
Acquire(t) ==
    /\ singleton.pc[t] = "line 19"
    /\ singleton._lock = 0
    /\ singleton' = [Goto(t, "line 20") EXCEPT !._lock = t]
    /\ UNCHANGED settings
    /\ UNCHANGED NotTheClass

\* Line 20, if cls._instance is None, under the lock.
SecondCheckSkipped(s) == TRUE
SecondCheck(s) == s._instance = 0
CheckAgain(t) ==
    /\ singleton.pc[t] = "line 20"
    /\ IF SecondCheck(singleton)
       THEN singleton' = Goto(t, "line 21")
       ELSE singleton' = [Goto(t, "unlock") EXCEPT !.waited = @ \cup {t}]
    /\ UNCHANGED settings
    /\ UNCHANGED NotTheClass

\* Line 21, cls._instance = super().__new__(cls): objects are numbered in the
\* order they are made.
Create(t) ==
    /\ singleton.pc[t] = "line 21"
    /\ singleton' = [Goto(t, "line 22") EXCEPT !.created = @ + 1,
                                              !._instance = singleton.created + 1]
    /\ UNCHANGED settings
    /\ UNCHANGED NotTheClass

\* Line 22, cls._instance._initialized = False
MarkUninitialized(t) ==
    /\ singleton.pc[t] = "line 22"
    /\ singleton' = [Goto(t, "unlock") EXCEPT !.initialized = @ \ {singleton._instance}]
    /\ UNCHANGED settings
    /\ UNCHANGED NotTheClass

\* The end of the with block.
Release(t) ==
    /\ singleton.pc[t] = "unlock"
    /\ singleton' = [Goto(t, "line 23") EXCEPT !._lock = 0]
    /\ UNCHANGED settings
    /\ UNCHANGED NotTheClass

\* Line 23, return cls._instance
ReturnInstance(t) ==
    /\ singleton.pc[t] = "line 23"
    /\ singleton' = [Goto(t, "__init__") EXCEPT !.self[t] = singleton._instance]
    /\ UNCHANGED settings
    /\ UNCHANGED NotTheClass

\* __init__ on the object __new__ returned: it does nothing when the object
\* is initialised, and sets the defaults otherwise.  The call is complete.
InitInstance(t) ==
    /\ singleton.pc[t] = "__init__"
    /\ IF singleton.self[t] \in singleton.initialized
       THEN /\ singleton' = [Goto(t, "idle") EXCEPT !.returned = @ \cup {singleton.self[t]}]
            /\ UNCHANGED settings
       ELSE /\ singleton' = [Goto(t, "idle") EXCEPT
                                 !.returned = @ \cup {singleton.self[t]},
                                 !.initialized = @ \cup {singleton.self[t]}]
            /\ settings' = DefaultSettings
    /\ UNCHANGED NotTheClass

\* GameSettings._instance = None, as the tests' setUp does between calls.
ResetInstance ==
    /\ \A t \in Threads : singleton.pc[t] = "idle"
    /\ singleton._instance # 0
    /\ singleton' = ClassLoaded
    /\ settings' = None
    /\ last' = [op |-> "reset"]
    /\ UNCHANGED <<game, maze, player, raycaster, steps, frame, cast, refs>>

\* The player and the movement step: a level is running, and the methods of
\* the player and Game.update are called in any order.
PlayerInit ==
    \E d \in Difficulty :
        /\ game = start_level(NewGameObject, d, DefaultSettings).game
        /\ maze = NewMazeObject(d)
        /\ player = start_level(NewGameObject, d, DefaultSettings).player
        /\ settings = DefaultSettings
        /\ raycaster = NewRaycasterObject(DefaultSettings)
        /\ last = [op |-> "start_level", difficulty |-> d, from |-> "MENU", old |-> NoRefs]
        /\ steps = 0
        /\ ElsewhereIdle
        /\ refs = refs_start_level(NoRefs)
PlayerNext ==
    \/ \E d \in Difficulty : StartLevel(d)
    \/ \E pos \in PositionArgs, a \in AngleArgs : ConstructPlayer(pos, a)
    \/ \E a \in AngleArgs : SetAngle(a)
    \/ \E a \in AngleArgs : Turn(a)
    \/ \E pos \in PositionArgs : SetPosition(pos)
    \/ \E pos \in ExitArgs : is_exit(maze, PyInt(pos[1]), PyInt(pos[2])) /\ SetPosition(pos)
    \/ \E d \in DistanceArgs : MoveForward(d)
    \/ \E keys \in KeyArgs, dt \in DtArgs : PlayerUpdateStep(keys, dt)
    \/ \E keys \in KeyArgs, dt \in DtArgs : GameUpdateStep(keys, dt)
    \/ \E pos \in ProbeArgs, r \in RadiusArgs : CanMoveTo(pos, r)
SpecPlayer == PlayerInit /\ [][PlayerNext]_vars

\* The raycaster: a level is running with some quality parameters, the
\* player is turned and placed, and the rays are cast.
RayInitWith(fov, nums, depths) ==
    \E d \in Difficulty, n \in nums, depth \in depths :
        LET st == [DefaultSettings EXCEPT !.FOV = fov, !.NUM_RAYS = n, !.MAX_DEPTH = depth]
        IN  /\ settings = st
            /\ game = start_level(NewGameObject, d, st).game
            /\ maze = NewMazeObject(d)
            /\ player = start_level(NewGameObject, d, st).player
            /\ raycaster = NewRaycasterObject(st)
            /\ last = [op |-> "start_level", difficulty |-> d]
            /\ steps = 0
            /\ ElsewhereIdle
            /\ refs = refs_start_level(NoRefs)
RayNext ==
    \/ CastRays
    \/ \E a \in RayTurnArgs : RayTurn(a)
    \/ \E pos \in PositionArgs : RayPlace(pos)
RayInit == RayInitWith(FOV * Deg, 1..MaxNumRays, 1..MaxDepth)
SpecRay == RayInit /\ [][RayNext]_vars

\* The reading calls among the others: a level is running, the rays are
\* cast, cells are queried and positions probed, while the player is turned
\* and moved by the frames' updates and levels are started.
ReadCellArgs == {-1, 1, 2}
ReadsNext ==
    \/ CastRays
    \/ \E x \in ReadCellArgs, y \in ReadCellArgs : QueryCell(x, y)
    \/ \E pos \in ProbeArgs, r \in RadiusArgs : CanMoveTo(pos, r)
    \/ \E d \in Difficulty : StartLevel(d)
    \/ \E keys \in {{"forward"}, {"turn_left"}}, dt \in DtArgs : GameUpdateStep(keys, dt)
SpecReads == RayInitWith(FOV * Deg, {2}, {MaxDepth}) /\ [][ReadsNext]_vars

\* A level walked from its spawn point: Game.update is the only call, with
\* the key states of the frames and frame times up to half a second.
WalkDtArgs == DtArgs \cup LongDtArgs \cup {500}
WalkNext == \E keys \in WalkKeyArgs, dt \in WalkDtArgs : GameUpdateStep(keys, dt)
SpecWalk == PlayerInit /\ [][WalkNext]_vars

\* The end-to-end scenario's quality parameters: one ray, no field of view,
\* the default depth.
ScenarioInit == RayInitWith(0, {1}, {MAX_DEPTH})
SpecScenario == ScenarioInit /\ [][RayNext]_vars

\* The quality parameters: between casts they are written, also with the
\* values 0 and -1, and a raycaster is constructed under them.
QualityNext ==
    \/ CastRays
    \/ \E n \in -1..MaxNumRays : WriteQuality("NUM_RAYS", n)
    \/ \E depth \in -1..MaxDepth : WriteQuality("MAX_DEPTH", depth)
    \/ ConstructRaycaster
SpecQuality == RayInit /\ [][QualityNext]_vars

\* The settings class: threads call GameSettings() at any moment.
SingletonInit ==
    /\ game = None
    /\ maze = None
    /\ player = None
    /\ raycaster = None
    /\ settings = None
    /\ last = [op |-> "import"]
    /\ steps = 0
    /\ ElsewhereIdle
    /\ refs = NoRefs
SingletonNext ==
    \/ \E t \in Threads : SingletonCall(t)
    \/ \E t \in Threads : FirstCheck(t)
    \/ \E t \in Threads : Acquire(t)
    \/ \E t \in Threads : CheckAgain(t)
    \/ \E t \in Threads : Create(t)
    \/ \E t \in Threads : MarkUninitialized(t)
    \/ \E t \in Threads : Release(t)
    \/ \E t \in Threads : ReturnInstance(t)
    \/ \E t \in Threads : InitInstance(t)
    \/ ResetInstance
SpecSingleton == SingletonInit /\ [][SingletonNext]_vars

\* The settings class in use: threads call GameSettings() at any moment, and
\* whoever holds the object calls adapt_performance on it.
SharedSettingsNext ==
    \/ SingletonNext
    \/ \E fps \in FpsArgs : AdaptPerformance(fps)
SpecSharedSettings == SingletonInit /\ [][SharedSettingsNext]_vars

\* The game driven event by event: key events and updates in any order.
KeysNext ==
    \/ \E e \in Events : KeyDown(e)
    \/ \E keys \in {{"forward"}, {"strafe_right"}}, dt \in LongDtArgs : GameUpdateStep(keys, dt)
SpecKeys == Nothing /\ [][KeysNext]_vars

\* Levels started from the menu and by calling start_level directly, in any
\* state; the player walks ahead or sideways.
LevelsNext ==
    \/ \E e \in Events : KeyDown(e)
    \/ \E keys \in {{"forward"}, {"strafe_right"}}, dt \in LongDtArgs : GameUpdateStep(keys, dt)
    \/ \E d \in Difficulty : StartLevel(d)
SpecLevels == Nothing /\ [][LevelsNext]_vars

\* The settings on their own: freshly initialised, then adapt_performance
\* called with any whole frame rate, any number of times.
AdaptInit ==
    /\ game = None
    /\ maze = None
    /\ player = None
    /\ raycaster = None
    /\ settings = DefaultSettings
    /\ last = [op |-> "get_settings"]
    /\ steps = 0
    /\ ElsewhereIdle
    /\ refs = NoRefs
AdaptNext == \E fps \in 0..MaxFps : AdaptPerformance(fps)
SpecAdapt == AdaptInit /\ [][AdaptNext]_vars

\* The game: Game() has been constructed and run() iterates its loop.
GameInit ==
    /\ game = NewGameObject
    /\ maze = None
    /\ player = None
    /\ raycaster = None
    /\ settings = DefaultSettings
    /\ last = [op |-> "Game"]
    /\ steps = 0
    /\ frame = [pc |-> "loop", calls |-> <<>>, raised |-> "none"]
    /\ cast = NoCast
    /\ singleton = ClassLoaded
    /\ refs = NoRefs
GameNext ==
    \/ RunTest
    \/ \E events \in EventArgs : HandleEvents(events)
    \/ \E keys \in KeyArgs, dt \in DtArgs : Update(keys, dt)
    \/ \E fps \in FpsArgs : Render(fps)
SpecGame == GameInit /\ [][GameNext]_vars

\* The game with a fault: NUM_RAYS of the shared settings is set to 0 from
\* outside the loop, which makes Raycaster(...) and cast_rays() raise.
GameFaultNext ==
    \/ GameNext
    \/ WriteQuality("NUM_RAYS", 0)
SpecGameFault == GameInit /\ [][GameFaultNext]_vars

\* A cast in progress, and another thread that writes the quality parameters
\* at any moment.
ThreadsNext ==
    \/ CastCall
    \/ CastUpdateSettings
    \/ CastRange
    \/ CastMarch
    \/ CastSentinel
    \/ CastReturn
    \/ \E n \in 1..MaxNumRays : ThreadWrite("NUM_RAYS", n)
    \/ \E depth \in 1..MaxDepth : ThreadWrite("MAX_DEPTH", depth)
SpecThreads == RayInit /\ [][ThreadsNext]_vars

\* ------------------------------------------------------------------ the claims' vocabulary

\* The cell a coordinate (micro-cells) lies in when truncated toward zero.
TowardZero(v) ==
    IF v >= 0
    THEN CHOOSE c \in 0..40 : c * Cell <= v /\ v < (c + 1) * Cell
    ELSE 0 - (CHOOSE c \in 0..40 : c * Cell <= 0 - v /\ 0 - v < (c + 1) * Cell)

\* The fractional part of a coordinate: its distance above the integer below it.
Fraction(v) == v - Cell * (CHOOSE c \in -40..40 : c * Cell <= v /\ v < (c + 1) * Cell)

InGrid(x, y) == x \in 0..(maze.width - 1) /\ y \in 0..(maze.height - 1)
CellCode(x, y) == MAZE_DATA[maze.difficulty][y + 1][x + 1]

\* Sample k of the ray cast from the player at angle a.
SampleX(a, k) == player.x + Cos(a) * k * (step \div Milli)
SampleY(a, k) == player.y + Sin(a) * k * (step \div Milli)
WallAtSample(a, k) == is_wall(maze, TowardZero(SampleX(a, k)), TowardZero(SampleY(a, k)))

\* The samples a march takes: those nearer than MAX_DEPTH.
SampleCount == CHOOSE n \in 0..2000 : n * step <= settings.MAX_DEPTH * Cell
                                       /\ (n + 1) * step > settings.MAX_DEPTH * Cell
NoWallAlong(a) == \A k \in 0..(SampleCount - 1) : ~WallAtSample(a, k)

RecordKeys == {"distance", "angle", "wall_x", "wall_y", "texture_u", "hit_vertical"}

\* ------------------------------------------------------------------ claims

\* C1: is_wall and is_exit are total and agree with the grid: outside
\* [0,width) x [0,height) is_wall is true and is_exit false; inside, is_wall
\* holds exactly for code 1 and is_exit exactly for code 9; never both.
C1_WallExitAgreeWithGrid ==
    last.op = "is_wall/is_exit" =>
        /\ ~(last.wall /\ last.exit)
        /\ IF InGrid(last.x, last.y)
           THEN /\ last.wall = (CellCode(last.x, last.y) = 1)
                /\ last.exit = (CellCode(last.x, last.y) = 9)
           ELSE last.wall /\ ~last.exit

\* The cell just right of the grid's first row has been queried.
C1_Witness ==
    /\ last.op = "is_wall/is_exit"
    /\ last.x = maze.width /\ last.y = 0
    /\ last.wall /\ ~last.exit

\* C2: cast_rays() returns NUM_RAYS records; record i has the angle
\* player.angle - FOV/2 + i * FOV/NUM_RAYS, so the angles increase, are
\* FOV/NUM_RAYS apart and lie in [player.angle - FOV/2, player.angle + FOV/2);
\* each record has the six keys.
C2_RayFan ==
    last.op = "cast_rays" =>
        LET n == settings.NUM_RAYS
            r == last.rays
        IN  /\ DOMAIN r = 1..n
            /\ \A i \in 1..n :
                /\ DOMAIN r[i] = RecordKeys
                /\ 2 * n * r[i].angle
                     = 2 * n * player.angle - n * settings.FOV + 2 * (i - 1) * settings.FOV
                /\ 2 * r[i].angle >= 2 * player.angle - settings.FOV
                /\ 2 * r[i].angle < 2 * player.angle + settings.FOV
            /\ \A i \in 1..(n - 1) :
                /\ r[i].angle < r[i + 1].angle
                /\ n * (r[i + 1].angle - r[i].angle) = settings.FOV

\* A fan of three rays or more has been cast from a player facing 345 degrees.
C2_Witness ==
    /\ last.op = "cast_rays"
    /\ settings.NUM_RAYS >= 3
    /\ player.angle = 345 * Deg

\* C3: the record of every ray that meets no wall within max_depth has
\* distance == max_depth, wall_x == wall_y == texture_u == 0 and
\* hit_vertical false, whatever the ray's offset from the facing angle.
C3_SentinelRecord ==
    last.op = "cast_rays" =>
        \A i \in DOMAIN last.rays :
            NoWallAlong(last.rays[i].angle) =>
                /\ last.rays[i].distance = settings.MAX_DEPTH * Cell
                /\ last.rays[i].wall_x = 0
                /\ last.rays[i].wall_y = 0
                /\ last.rays[i].texture_u = 0
                /\ last.rays[i].hit_vertical = FALSE

\* The end-to-end scenario has been run: the 5x4 maze, the player at
\* (1.5, 1.5) facing 0, one ray, no field of view, step 0.02.
ScenarioCast ==
    /\ last.op = "cast_rays"
    /\ maze.difficulty = "EASY"
    /\ player = [x |-> (3 * Cell) \div 2, y |-> (3 * Cell) \div 2, angle |-> 0]
    /\ settings.NUM_RAYS = 1 /\ settings.FOV = 0

\* C4, as claimed: one record, hit_vertical, distance in [0.45, 0.55].
C4_ScenarioAsClaimed ==
    ScenarioCast =>
        /\ DOMAIN last.rays = 1..1
        /\ last.rays[1].hit_vertical
        /\ 100 * last.rays[1].distance >= 45 * Cell
        /\ 100 * last.rays[1].distance <= 55 * Cell

\* C4, amended: one record, hit_vertical, distance 2.5 (in [2.45, 2.55]):
\* the wall east of the player is column 4, two and a half cells away.
C4_Scenario ==
    ScenarioCast =>
        /\ DOMAIN last.rays = 1..1
        /\ last.rays[1].hit_vertical
        /\ 100 * last.rays[1].distance >= 245 * Cell
        /\ 100 * last.rays[1].distance <= 255 * Cell
        /\ 2 * last.rays[1].distance = 5 * Cell

\* The scenario's ray has stopped on the wall of column 4.
C4_Witness == ScenarioCast /\ last.rays[1].wall_x = 4 * Cell

\* C5: set_angle(a) leaves angle == a mod 360 and turn(d) leaves
\* angle == (old angle + d) mod 360, a value in [0,360), for every magnitude
\* and sign of the argument.
C5_AngleWrapped ==
    /\ last.op = "set_angle" =>
        /\ player.angle = last.angle % FullTurn
        /\ 0 <= player.angle /\ player.angle < FullTurn
    /\ last.op = "turn" =>
        /\ player.angle = (last.before.angle + last.angle) % FullTurn
        /\ 0 <= player.angle /\ player.angle < FullTurn

\* C6: in every reachable state of a Player, from construction on,
\* player.angle lies in [0,360).
C6_AngleInRange ==
    player # None => 0 <= player.angle /\ player.angle < FullTurn

\* C7: a movement step of Game.update and Player.update commits the x delta
\* exactly when _can_move_to(x + dx, y) holds, then the y delta exactly when
\* _can_move_to(x after the x step, y + dy) holds.
C7_PerAxisMove ==
    last.op \in {"Game.update", "Player.update"} =>
        LET b  == last.before
            x1 == IF _can_move_to(b.x + last.dx, b.y, maze, last.radius)
                  THEN b.x + last.dx ELSE b.x
            y1 == IF _can_move_to(x1, b.y + last.dy, maze, last.radius)
                  THEN b.y + last.dy ELSE b.y
        IN  player.x = x1 /\ player.y = y1

\* Game.update has moved the player along y by dy while a wall blocked its
\* move along x.
C7_Witness ==
    /\ last.op = "Game.update"
    /\ last.dx # 0 /\ last.dy # 0
    /\ ~_can_move_to(last.before.x + last.dx, last.before.y, maze, last.radius)
    /\ player.x = last.before.x
    /\ player.y = last.before.y + last.dy

\* C8: _can_move_to(x, y, maze, radius) is false exactly when one of the
\* four corners (x +- radius, y +- radius), truncated toward zero, is a cell
\* for which is_wall holds.
C8_CanMoveTo ==
    last.op = "_can_move_to" =>
        last.result =
            ~ \E sx \in {-1, 1}, sy \in {-1, 1} :
                is_wall(maze, TowardZero(last.x + sx * last.radius),
                              TowardZero(last.y + sy * last.radius))

\* _can_move_to has refused a point whose only corner in a wall is the last
\* of the four, (x + radius, y + radius).
C8_Witness ==
    /\ last.op = "_can_move_to"
    /\ ~last.result
    /\ is_wall(maze, TowardZero(last.x + last.radius), TowardZero(last.y + last.radius))
    /\ ~is_wall(maze, TowardZero(last.x - last.radius), TowardZero(last.y - last.radius))
    /\ ~is_wall(maze, TowardZero(last.x + last.radius), TowardZero(last.y - last.radius))
    /\ ~is_wall(maze, TowardZero(last.x - last.radius), TowardZero(last.y + last.radius))

\* Ray i of the last cast hit a wall.
IsHit(i) == ~NoWallAlong(last.rays[i].angle)

\* C9: for every wall hit of a march, texture_u lies in [0,1) and is the
\* fractional part of the hit y when hit_vertical and of the hit x
\* otherwise, also for hits with negative coordinates.
C9_TextureU ==
    last.op = "cast_rays" =>
        \A i \in DOMAIN last.marches :
            IsHit(i) =>
                LET h == last.marches[i]
                IN  /\ 0 <= h.texture_u /\ h.texture_u < Cell
                    /\ h.texture_u
                         = Fraction(IF h.hit_vertical THEN h.wall_y ELSE h.wall_x)

\* C10: for every wall hit of a march, hit_vertical is true exactly when
\* the truncated x of the sample one step before the hit differs from the
\* truncated x of the hit sample.
C10_HitVertical ==
    last.op = "cast_rays" =>
        \A i \in DOMAIN last.marches :
            IsHit(i) =>
                LET a == last.rays[i].angle
                    k == CHOOSE k \in 0..(SampleCount - 1) :
                            /\ WallAtSample(a, k)
                            /\ \A j \in 0..(k - 1) : ~WallAtSample(a, j)
                    crossed == TowardZero(SampleX(a, k - 1)) # TowardZero(SampleX(a, k))
                IN  /\ last.marches[i].hit_vertical = crossed
                    /\ last.rays[i].hit_vertical = crossed

\* A march has hit a wall on a step that crossed both a vertical and a
\* horizontal grid line, and reported hit_vertical.
C10_Witness ==
    /\ last.op = "cast_rays"
    /\ \E i \in DOMAIN last.marches :
        /\ IsHit(i)
        /\ last.marches[i].hit_vertical
        /\ LET a == last.rays[i].angle
               d == last.marches[i].distance
           IN  TowardZero(player.y + MulTrig(Sin(a), d - step))
                 # TowardZero(player.y + MulTrig(Sin(a), d))

\* C11: every record's distance is the march's raw distance times the
\* cosine of (ray angle - player.angle); for a ray along the facing angle the
\* factor is 1 and the two distances are equal.
C11_FisheyeCorrection ==
    last.op = "cast_rays" =>
        \A i \in DOMAIN last.rays :
            /\ last.marches[i].distance % Milli = 0
            /\ last.rays[i].distance
                 = Cos(last.rays[i].angle - player.angle) * (last.marches[i].distance \div Milli)
            /\ last.rays[i].angle = player.angle
                 => last.rays[i].distance = last.marches[i].distance

\* A cast has returned a ray along the facing angle that hit a wall, next to
\* a ray off the facing angle whose distance the correction shortened.
C11_Witness ==
    /\ last.op = "cast_rays"
    /\ \E i \in DOMAIN last.rays :
        /\ last.rays[i].angle = player.angle
        /\ IsHit(i)
        /\ last.rays[i].distance > 0
    /\ \E i \in DOMAIN last.rays :
        /\ last.rays[i].angle # player.angle
        /\ last.rays[i].distance < last.marches[i].distance

\* C14: the quality parameters are read anew by every cast: a cast made
\* after NUM_RAYS or MAX_DEPTH changed returns the new NUM_RAYS records,
\* FOV / NUM_RAYS apart, and marches to the new MAX_DEPTH: a ray with no wall
\* within it gets the sentinel at that depth, every other ray a hit nearer
\* than it.
C14_QualityReRead ==
    (last.op = "cast_rays" /\ settings.NUM_RAYS >= 1 /\ settings.MAX_DEPTH >= 1) =>
        LET n == settings.NUM_RAYS
        IN  /\ last.raised = "none"
            /\ DOMAIN last.rays = 1..n
            /\ \A i \in 1..(n - 1) :
                n * (last.rays[i + 1].angle - last.rays[i].angle) = settings.FOV
            /\ \A i \in 1..n :
                IF NoWallAlong(last.rays[i].angle)
                THEN last.marches[i].distance = settings.MAX_DEPTH * Cell
                ELSE last.marches[i].distance < settings.MAX_DEPTH * Cell

\* A cast has been made after both quality parameters were changed since the
\* cast before it, and one of its rays met no wall within the new depth.
C14_Witness ==
    /\ last.op = "cast_rays"
    /\ last.earlier # None
    /\ settings.NUM_RAYS >= 2
    /\ settings.MAX_DEPTH >= 1
    /\ last.earlier.NUM_RAYS >= 1
    /\ last.earlier.NUM_RAYS # settings.NUM_RAYS
    /\ last.earlier.MAX_DEPTH > settings.MAX_DEPTH
    /\ DOMAIN last.rays = 1..settings.NUM_RAYS
    /\ \E i \in DOMAIN last.rays : NoWallAlong(last.rays[i].angle)

\* C15: cast_rays() has no error outcome: with NUM_RAYS <= 0 it returns an
\* empty sequence, with MAX_DEPTH <= 0 every record is the sentinel; no
\* exception is raised in either case.
C15_NoErrorOutcome ==
    last.op = "cast_rays" =>
        /\ settings.NUM_RAYS <= 0 => (last.raised = "none" /\ last.rays = <<>>)
        /\ settings.MAX_DEPTH <= 0 =>
            /\ last.raised = "none"
            /\ \A i \in DOMAIN last.marches :
                /\ last.marches[i].distance = settings.MAX_DEPTH * Cell
                /\ last.marches[i].wall_x = 0 /\ last.marches[i].wall_y = 0
                /\ last.marches[i].texture_u = 0
                /\ last.marches[i].hit_vertical = FALSE

\* The errors a rejected configuration may be reported with.
TypedConfigurationErrors == {"ValueError", "ConfigurationError"}

\* C16: constructing a Raycaster while NUM_RAYS or MAX_DEPTH is
\* non-positive fails with a typed configuration error, and no Raycaster is
\* made.
C16_ConstructionRejects ==
    (last.op = "Raycaster" /\ (settings.NUM_RAYS <= 0 \/ settings.MAX_DEPTH <= 0)) =>
        /\ last.raised \in TypedConfigurationErrors
        /\ ~last.made

\* A cast_rays() call that ran beside the writing thread has returned.
ThreadedCastReturned == last.op = "cast_rays" /\ "n" \in DOMAIN last

\* C12: when another thread changes NUM_RAYS while a cast_rays() call runs,
\* the call returns as many records as the NUM_RAYS read when its loop
\* started, and consecutive records are FOV divided by that same value apart.
C12_OneNumRays ==
    ThreadedCastReturned =>
        /\ Len(last.rays) = last.n
        /\ \A i \in 1..(Len(last.rays) - 1) :
            last.n * (last.rays[i + 1].angle - last.rays[i].angle) = settings.FOV

\* C13: one cast_rays() call uses the MAX_DEPTH that held when it started:
\* every ray marches to that depth, and a ray that meets no wall reports it
\* as the sentinel distance of its march.
C13_OneMaxDepth ==
    ThreadedCastReturned =>
        \A i \in 1..Len(last.marches) :
            /\ last.depths[i] = last.max_depth0
            /\ (last.marches[i].wall_x = 0 /\ last.marches[i].wall_y = 0)
                 => last.marches[i].distance = last.max_depth0 * Cell

\* C18: after every Game.update in state PLAYING the state is COMPLETED
\* exactly when is_exit holds for the truncated position the player has
\* after the movement, and PLAYING otherwise, also when the player did not
\* move.
C18_ExitAfterUpdate ==
    last.op = "Game.update" =>
        game.state = IF is_exit(maze, TowardZero(player.x), TowardZero(player.y))
                     THEN "COMPLETED"
                     ELSE "PLAYING"

\* Game.update found the player on the exit without having moved it.
C18_Witness ==
    /\ last.op = "Game.update"
    /\ player.x = last.before.x /\ player.y = last.before.y
    /\ game.state = "COMPLETED"

\* The calls of the current frame named in `names`, in the order made.
CallsAmong(names) == SelectSeq(frame.calls, LAMBDA c : c \in names)
Called(name) == \E i \in 1..Len(frame.calls) : frame.calls[i] = name

\* C17: when update or cast_rays raises during a frame of a running level,
\* the game is back in the MENU state and the frame loop keeps running; the
\* process has not ended.
C17_LevelHaltedOnly ==
    (frame.raised # "none" /\ Called("cast_rays")) =>
        /\ game.state = "MENU"
        /\ frame.pc \notin {"terminated", "exited"}

\* C19: in every frame handle_events, update and render are called in that
\* order; cast_rays is called at most once, only in states PLAYING and
\* PAUSED and after the frame's update; adapt_performance is called before
\* the frame's cast_rays, which therefore works with the parameters it left.
C19_FrameOrder ==
    /\ \E n \in 0..3 :
        CallsAmong({"handle_events", "update", "render"})
            = SubSeq(<<"handle_events", "update", "render">>, 1, n)
    /\ Len(CallsAmong({"cast_rays"})) <= 1
    /\ Called("cast_rays") =>
        /\ game.state \in {"PLAYING", "PAUSED"}
        /\ \E i, j \in 1..Len(frame.calls) :
            i < j /\ frame.calls[i] = "update" /\ frame.calls[j] = "cast_rays"
        /\ frame.raised = "none" =>
            raycaster.delta_angle = FScale(settings.FOV, 1, settings.NUM_RAYS)
    /\ \A i, j \in 1..Len(frame.calls) :
        (frame.calls[i] = "adapt_performance" /\ frame.calls[j] = "cast_rays") => i < j

\* A frame in state PLAYING in which adapt_performance lowered NUM_RAYS and
\* cast_rays followed.
C19_Witness ==
    /\ frame.pc = "loop"
    /\ frame.calls = <<"handle_events", "update", "render", "adapt_performance", "cast_rays">>
    /\ settings.NUM_RAYS = 60
    /\ raycaster.delta_angle = FScale(settings.FOV, 1, 60)

\* C20: every call of GameSettings() and get_settings() returns the same
\* object, also when the first calls run concurrently in several threads:
\* between two resets of _instance at most one object is made.
C20_OneInstance ==
    /\ singleton.created <= 1
    /\ Cardinality(singleton.returned) <= 1
    /\ \A t \in Threads :
        singleton.pc[t] \in {"__init__", "idle"} /\ singleton.self[t] # 0
            => singleton.self[t] = singleton._instance

\* Every thread has its object, and one of them had passed the first check
\* while another was making the object.
C20_Witness ==
    /\ \A t \in Threads : singleton.pc[t] = "idle" /\ singleton.self[t] = 1
    /\ singleton.waited # {}
    /\ singleton.returned = {1}

\* C21: adapt_performance(fps) returns "reduced" and sets NUM_RAYS = 60,
\* MAX_DEPTH = 8 exactly when fps < 30; returns "increased" and sets 150 and
\* 20 exactly when fps > 55; returns "unchanged" and leaves both as they
\* were otherwise; "reduced" from the defaults lowers NUM_RAYS.
C21_AdaptPerformance ==
    last.op = "adapt_performance" =>
        /\ last.returned = "reduced" <=> last.fps < 30
        /\ last.returned = "increased" <=> last.fps > 55
        /\ last.returned = "unchanged" <=> (30 <= last.fps /\ last.fps <= 55)
        /\ last.returned = "reduced" => settings.NUM_RAYS = 60 /\ settings.MAX_DEPTH = 8
        /\ last.returned = "increased" => settings.NUM_RAYS = 150 /\ settings.MAX_DEPTH = 20
        /\ last.returned = "unchanged" =>
            /\ settings.NUM_RAYS = last.before.NUM_RAYS
            /\ settings.MAX_DEPTH = last.before.MAX_DEPTH
        /\ (last.returned = "reduced" /\ last.before.NUM_RAYS = NUM_RAYS)
            => settings.NUM_RAYS < last.before.NUM_RAYS
        /\ settings.FOV = DefaultSettings.FOV

\* adapt_performance has returned "reduced" on the default settings.
C21_Witness ==
    /\ last.op = "adapt_performance"
    /\ last.returned = "reduced"
    /\ last.before = [NUM_RAYS |-> NUM_RAYS, MAX_DEPTH |-> MAX_DEPTH]
    /\ settings.NUM_RAYS = 60

\* The strategy the claim names for a difficulty.
StrategyNamed(d) ==
    CASE d = "EASY" -> "Easy" [] d = "MEDIUM" -> "Normal" [] d = "HARD" -> "Hard"

\* C22: start_level(d), called in any state of the game, leaves state PLAYING
\* and current_difficulty d, a new maze of d, a new player at the maze's spawn
\* point with angle 0, a new raycaster bound to that player and that maze,
\* and the movement strategy of d.
C22_StartLevel ==
    last.op = "start_level" =>
        /\ game.state = "PLAYING"
        /\ game.current_difficulty = last.difficulty
        /\ maze.difficulty = last.difficulty
        /\ maze.maze_data = MAZE_DATA[last.difficulty]
        /\ player = [x |-> maze.spawn_x, y |-> maze.spawn_y, angle |-> 0]
        /\ raycaster # None
        /\ refs.maze \notin {0, last.old.maze, last.old.raycaster_maze}
        /\ refs.player \notin {0, last.old.player, last.old.raycaster_player}
        /\ refs.raycaster_player = refs.player
        /\ refs.raycaster_maze = refs.maze
        /\ game.strategy = StrategyNamed(last.difficulty)

\* start_level(HARD) was called on a completed level of another difficulty.
C22_Witness ==
    /\ last.op = "start_level"
    /\ last.from = "COMPLETED"
    /\ last.old.maze # 0
    /\ last.difficulty = "HARD"
    /\ game.strategy = "Hard"

\* C23: cast_rays() always terminates: for every NUM_RAYS and MAX_DEPTH it
\* makes exactly NUM_RAYS marches, each of at most int(MAX_DEPTH / 0.02)
\* steps of 0.02, and then returns (no march for a negative NUM_RAYS).
C23_CastTerminates ==
    last.op = "cast_rays" =>
        /\ last.raised = "none"
        /\ Len(last.marches) = IF settings.NUM_RAYS > 0 THEN settings.NUM_RAYS ELSE 0
        /\ Len(last.rays) = Len(last.marches)
        /\ \A i \in DOMAIN last.marches :
            last.marches[i].distance <= SampleCount * step

\* C24: cast_rays(), is_wall, is_exit and _can_move_to leave the player's x,
\* y and angle, the maze's cells, width and height and the settings FOV,
\* NUM_RAYS and MAX_DEPTH as they were; and no step changes the cells of a
\* maze: a maze always has the cells it was constructed with.
ReadingCalls == {"cast_rays", "is_wall/is_exit", "_can_move_to"}
C24_ReadsChangeNothing ==
    /\ [](maze # None =>
            /\ maze.maze_data = MAZE_DATA[maze.difficulty]
            /\ maze.width = Len(maze.maze_data[1])
            /\ maze.height = Len(maze.maze_data))
    /\ [][(last'.op \in ReadingCalls =>
                /\ player' = player
                /\ maze' = maze
                /\ settings'.FOV = settings.FOV
                /\ settings'.NUM_RAYS = settings.NUM_RAYS
                /\ settings'.MAX_DEPTH = settings.MAX_DEPTH)
           /\ (refs'.maze = refs.maze => maze' = maze)]_vars
C24_Witness ==
    /\ last.op = "cast_rays"
    /\ last.raised = "none"
    /\ Len(last.rays) = settings.NUM_RAYS
    /\ refs.maze = 2
    /\ player.angle # 0

\* C25: from a spawn position where _can_move_to holds with radius 0.2, after
\* any sequence of Game.update steps _can_move_to(player.x, player.y) still
\* holds, and none of the four corners of the player's box lies in a wall
\* cell or outside the grid.
InsideGrid(m, v) ==
    /\ 0 <= v[1] /\ v[1] < m.width * Cell
    /\ 0 <= v[2] /\ v[2] < m.height * Cell
CornerFree(m, v) ==
    InsideGrid(m, v) /\ m.maze_data[(v[2] \div Cell) + 1][(v[1] \div Cell) + 1] # 1
C25_NeverInWall ==
    /\ _can_move_to(player.x, player.y, maze, DEFAULT_RADIUS)
    /\ \A k \in 1..4 : CornerFree(maze, Corners(player.x, player.y, DEFAULT_RADIUS)[k])

\* C26: the game starts in MENU with selected_option 0, and its state changes
\* only along MENU -> PLAYING (RETURN or SPACE on option 0, 1 or 2),
\* PLAYING -> MENU (ESC), PLAYING -> PAUSED (SPACE), PLAYING -> COMPLETED (the
\* player's cell is the exit at an update), PAUSED -> PLAYING (SPACE),
\* PAUSED -> MENU (ESC) and COMPLETED -> MENU (SPACE or RETURN); COMPLETED is
\* never entered from MENU or PAUSED, and selected_option stays in 0..3.
KeyEdge(from, to, keys) ==
    /\ game.state = from
    /\ game'.state = to
    /\ last'.op = "event"
    /\ last'.event \in keys
StateEdge ==
    \/ KeyEdge("MENU", "PLAYING", {"K_RETURN", "K_SPACE"}) /\ game.selected_option \in 0..2
    \/ KeyEdge("PLAYING", "MENU", {"K_ESCAPE"})
    \/ KeyEdge("PLAYING", "PAUSED", {"K_SPACE"})
    \/ /\ game.state = "PLAYING"
       /\ game'.state = "COMPLETED"
       /\ last'.op = "Game.update"
       /\ is_exit(maze', PyInt(player'.x), PyInt(player'.y))
    \/ KeyEdge("PAUSED", "PLAYING", {"K_SPACE"})
    \/ KeyEdge("PAUSED", "MENU", {"K_ESCAPE"})
    \/ KeyEdge("COMPLETED", "MENU", {"K_SPACE", "K_RETURN"})
C26_StateMachine ==
    /\ game.state = "MENU"
    /\ game.selected_option = 0
    /\ [](game.selected_option \in 0..3)
    /\ [][game'.state # game.state => StateEdge]_vars
C26_Witness ==
    /\ game.state = "MENU"
    /\ last.op = "event"
    /\ last.from = "COMPLETED"
    /\ game.selected_option = 1

\* C27: whenever the state is PLAYING or PAUSED, the maze, the player and the
\* raycaster exist, the raycaster's player and maze are the game's current
\* player and maze, and the maze's difficulty is current_difficulty; also in
\* a level started after ESC ended an earlier one.
C27_LevelBound ==
    game.state \in {"PLAYING", "PAUSED"} =>
        /\ maze # None
        /\ player # None
        /\ raycaster # None
        /\ refs.maze # 0
        /\ refs.player # 0
        /\ refs.raycaster_player = refs.player
        /\ refs.raycaster_maze = refs.maze
        /\ maze.difficulty = game.current_difficulty
C27_Witness ==
    /\ game.state = "PLAYING"
    /\ last.op = "event"
    /\ last.from = "MENU"
    /\ steps = 0
    /\ refs.maze = 2
    /\ game.current_difficulty = "HARD"

\* C28: NUM_RAYS and MAX_DEPTH are always one of the pairs (120, 15), (60, 8)
\* and (150, 20), whatever adapt_performance calls were made on the fresh
\* settings; in every state of the game loop both are positive, and the
\* division FOV / NUM_RAYS of the raycaster never raises.
QualityPairs == {<<NUM_RAYS, MAX_DEPTH>>, <<60, 8>>, <<150, 20>>}
C28_QualityPositive ==
    /\ <<settings.NUM_RAYS, settings.MAX_DEPTH>> \in QualityPairs
    /\ settings.NUM_RAYS > 0
    /\ settings.MAX_DEPTH > 0
    /\ ~_update_settings_raises(settings)
    /\ frame.raised = "none"
    /\ frame.pc # "terminated"
C28_Witness ==
    /\ <<settings.NUM_RAYS, settings.MAX_DEPTH>> = <<150, 20>>
    /\ last.op = "render"
    /\ CallsAmong({"adapt_performance", "cast_rays"}) = <<"adapt_performance", "cast_rays">>
    /\ raycaster # None
    /\ raycaster.delta_angle = FScale(settings.FOV, 1, 150)
    /\ steps = MaxFrames

\* C29: the body of GameSettings.__init__ runs at most once per instance:
\* once adapt_performance has changed NUM_RAYS and MAX_DEPTH, no GameSettings()
\* or get_settings() call that completes afterwards, in the same or another
\* thread, sets a setting back to its default.
InitCompletes(t) == singleton.pc[t] = "__init__" /\ singleton'.pc[t] = "idle"
C29_InitOnce ==
    [][\A t \in Threads :
          InitCompletes(t) /\ settings # None /\ settings # DefaultSettings
              => settings' = settings]_vars

====
